---- MODULE Spec2Model ----
(***************************************************************************)
(* Model of app.py: a Flask service with three GET handlers (HomePage,     *)
(* Pokemon, PokemonHeightComparison) sharing one Redis connection.         *)
(* Handlers run on concurrent worker threads; every network call           *)
(* (requests.get, redis SET, redis GET) is one atomic step.                *)
(*                                                                         *)
(* Text (names, JSON text) is a sequence of one-character strings, so      *)
(* that str.lower, str.capitalize, json.dumps, json.loads and float are    *)
(* computed rather than assumed.  Lengths are in centimetres: 0.5 m = 50.  *)
(***************************************************************************)
EXTENDS Integers, Sequences, FiniteSets, TLC

VARIABLES redis, req, lastSet

vars == <<redis, req, lastSet>>

\* Number of concurrent worker threads serving requests.
NumProcs == 2

Procs == 1..NumProcs

-----------------------------------------------------------------------------
(* str.lower / str.capitalize *)

LowerChar(c) ==
  CASE c = "P" -> "p"
    [] c = "I" -> "i"
    [] c = "D" -> "d"
    [] OTHER -> c

UpperChar(c) ==
  CASE c = "p" -> "P"
    [] c = "i" -> "I"
    [] c = "d" -> "D"
    [] OTHER -> c

Lower(s) == [i \in 1..Len(s) |-> LowerChar(s[i])]

Capitalize(s) ==
  [i \in 1..Len(s) |-> IF i = 1 THEN UpperChar(s[i]) ELSE LowerChar(s[i])]

\* Names a client may put in the URL.
Names == { <<"P", "i">>, <<"p", "i">>, <<"d", "i">> }

-----------------------------------------------------------------------------
(* JSON values as Python objects.  None is JSON null. *)

NoFields == [k \in {} |-> k]

JNum(k) == [t |-> "num", n |-> k, s |-> <<>>]
JStr(s) == [t |-> "str", n |-> 0, s |-> s]
JBool(b) == [t |-> "bool", n |-> IF b THEN 1 ELSE 0, s |-> <<>>]
JNull == [t |-> "null", n |-> 0, s |-> <<>>]

Top(sc) == [t |-> sc.t, n |-> sc.n, s |-> sc.s, f |-> NoFields]
Obj(f) == [t |-> "obj", n |-> 0, s |-> <<>>, f |-> f]
EmptyList == [t |-> "arr", n |-> 0, s |-> <<>>, f |-> NoFields]

PyNone == Top(JNull)

\* Bodies the upstream API may answer with.
Docs ==
  { Obj("height" :> JNum(7)),
    Obj("height" :> JStr(<<"7">>)),
    Obj("name" :> JStr(<<"x">>)),
    Obj(NoFields),
    EmptyList,
    Top(JNum(0)),
    Top(JBool(FALSE)),
    PyNone }

\* Python truth value of an object (the `if x:` test).
Truthy(d) ==
  CASE d.t = "obj" -> DOMAIN d.f # {}
    [] d.t = "arr" -> d.n # 0
    [] d.t = "num" -> d.n # 0
    [] d.t = "bool" -> d.n = 1
    [] d.t = "str" -> Len(d.s) > 0
    [] OTHER -> FALSE

-----------------------------------------------------------------------------
(* json.dumps / json.loads / float over text *)

DigitChars == <<"0", "1", "2", "3", "4", "5", "6", "7", "8", "9">>

IsDigit(c) == \E k \in 1..10 : DigitChars[k] = c

DigitOf(c) == (CHOOSE k \in 1..10 : DigitChars[k] = c) - 1

RECURSIVE Digits(_)
Digits(k) ==
  IF k < 10 THEN <<DigitChars[k + 1]>>
  ELSE Digits(k \div 10) \o <<DigitChars[(k % 10) + 1]>>

RECURSIVE DigitsVal(_)
DigitsVal(s) ==
  IF Len(s) = 0 THEN 0
  ELSE 10 * DigitsVal(SubSeq(s, 1, Len(s) - 1)) + DigitOf(s[Len(s)])

\* Keys of the upstream objects, in the order the upstream emits them.
FieldKeys == <<"height", "name">>

KeyText(k) ==
  IF k = "height" THEN <<"h", "e", "i", "g", "h", "t">> ELSE <<"n", "a", "m", "e">>

KeyOf(s) == CHOOSE k \in {"height", "name"} : KeyText(k) = s

Quote == "\""

DumpScalar(sc) ==
  CASE sc.t = "num" -> Digits(sc.n)
    [] sc.t = "str" -> <<Quote>> \o sc.s \o <<Quote>>
    [] sc.t = "bool" ->
         IF sc.n = 1 THEN <<"t", "r", "u", "e">> ELSE <<"f", "a", "l", "s", "e">>
    [] OTHER -> <<"n", "u", "l", "l">>

RECURSIVE DumpMembers(_, _, _)
DumpMembers(f, i, first) ==
  IF i > Len(FieldKeys) THEN <<>>
  ELSE IF FieldKeys[i] \notin DOMAIN f THEN DumpMembers(f, i + 1, first)
  ELSE (IF first THEN <<>> ELSE <<",", " ">>)
         \o <<Quote>> \o KeyText(FieldKeys[i]) \o <<Quote, ":", " ">>
         \o DumpScalar(f[FieldKeys[i]])
         \o DumpMembers(f, i + 1, FALSE)

\* json.dumps(data)
Dumps(d) ==
  CASE d.t = "obj" -> <<"{">> \o DumpMembers(d.f, 1, TRUE) \o <<"}">>
    [] d.t = "arr" -> <<"[", "]">>
    [] OTHER -> DumpScalar(d)

CloseQuote(t, i) == CHOOSE j \in (i + 1)..Len(t) :
  t[j] = Quote /\ \A m \in (i + 1)..(j - 1) : t[m] # Quote

DigitsEnd(t, i) == CHOOSE j \in i..(Len(t) + 1) :
  /\ \A m \in i..(j - 1) : IsDigit(t[m])
  /\ (j = Len(t) + 1 \/ ~IsDigit(t[j]))

ParseScalar(t, i) ==
  CASE t[i] = Quote ->
         [v |-> JStr(SubSeq(t, i + 1, CloseQuote(t, i) - 1)),
          next |-> CloseQuote(t, i) + 1]
    [] t[i] = "t" -> [v |-> JBool(TRUE), next |-> i + 4]
    [] t[i] = "f" -> [v |-> JBool(FALSE), next |-> i + 5]
    [] t[i] = "n" -> [v |-> JNull, next |-> i + 4]
    [] OTHER -> [v |-> JNum(DigitsVal(SubSeq(t, i, DigitsEnd(t, i) - 1))),
                 next |-> DigitsEnd(t, i)]

RECURSIVE ParseMembers(_, _, _)
ParseMembers(t, i, f) ==
  IF t[i] = "}" THEN f
  ELSE LET j == CloseQuote(t, i)
           k == KeyOf(SubSeq(t, i + 1, j - 1))
           r == ParseScalar(t, j + 3)
           g == [x \in DOMAIN f \cup {k} |-> IF x = k THEN r.v ELSE f[x]]
       IN  IF t[r.next] = "," THEN ParseMembers(t, r.next + 2, g)
           ELSE ParseMembers(t, r.next, g)

\* json.loads(data)
Loads(t) ==
  CASE t[1] = "{" -> Obj(ParseMembers(t, 2, NoFields))
    [] t[1] = "[" -> EmptyList
    [] OTHER -> Top(ParseScalar(t, 1).v)

\* float(x): [ok |-> TRUE, val |-> number] or ok = FALSE when float raises.
Float(sc) ==
  CASE sc.t = "num" -> [ok |-> TRUE, val |-> sc.n]
    [] sc.t = "bool" -> [ok |-> TRUE, val |-> sc.n]
    [] sc.t = "str" ->
         IF Len(sc.s) > 0 /\ \A i \in 1..Len(sc.s) : IsDigit(sc.s[i])
         THEN [ok |-> TRUE, val |-> DigitsVal(sc.s)]
         ELSE [ok |-> FALSE, val |-> 0]
    [] OTHER -> [ok |-> FALSE, val |-> 0]

-----------------------------------------------------------------------------
(* The Redis store behind redis_conn: a map from the keys ever SET to text *)

\* redis_conn.get(key): nil when the key was never set.
RedisGet(r, k) ==
  IF k \in DOMAIN r THEN [nil |-> FALSE, val |-> r[k]]
  ELSE [nil |-> TRUE, val |-> <<>>]

\* SET with NX: an existing key keeps its old value.
RedisSet_IfAbsent(r, k, v) ==
  [x \in DOMAIN r \cup {k} |-> IF x \in DOMAIN r THEN r[x] ELSE v]

\* redis_conn.set(key, value): create or overwrite that key only.
RedisSet(r, k, v) == [x \in DOMAIN r \cup {k} |-> IF x = k THEN v ELSE r[x]]

\* Truth value of what redis_conn.get returned (None or bytes).
BytesTruthy(b) == ~b.nil /\ Len(b.val) > 0

-----------------------------------------------------------------------------
(* PokemonDataLoader *)

api_url == <<"pokeapi.co/api/v2/pokemon">>

KeyPrefix == <<"p", "o", "k", "e", "m", "o", "n", ":">>

\* f"{self.api_url}/{pokemon_name.lower()}"
url(pokemon_name) == api_url \o <<"/">> \o Lower(pokemon_name)

\* The key without .lower().
redis_key_NoLower(pokemon_name) == KeyPrefix \o pokemon_name

\* f"pokemon:{pokemon_name.lower()}"
redis_key(pokemon_name) == KeyPrefix \o Lower(pokemon_name)

\* Bodies an error answer of the upstream may carry.
ErrorBodies == { Obj("name" :> JStr(<<"x">>)) }

\* Answers of the upstream API: 200 with any body, or 404.
Responses ==
  [status : {200}, body : Docs] \cup [status : {404}, body : ErrorBodies]

\* fetch_pokemon_data without the status test.
fetch_pokemon_data_AnyStatus(status, body) == body

\* What fetch_pokemon_data returns for the upstream's response.
fetch_pokemon_data(status, body) == IF status = 200 THEN body ELSE PyNone

\* insert_into_redis with APPEND in place of SET.
insert_into_redis_Append(r, pokemon_name, data) ==
  LET k == KeyPrefix \o Lower(pokemon_name)
  IN  [x \in DOMAIN r \cup {k} |->
         IF x # k THEN r[x]
         ELSE IF k \in DOMAIN r THEN r[k] \o Dumps(data) ELSE Dumps(data)]

\* insert_into_redis whose key literal lacks the f prefix: one key for all.
insert_into_redis_OneKey(r, pokemon_name, data) ==
  [x \in DOMAIN r \cup {KeyPrefix \o <<"{", "}">>} |->
     IF x = KeyPrefix \o <<"{", "}">> THEN Dumps(data) ELSE r[x]]

\* The store after insert_into_redis(pokemon_name, data).
insert_into_redis(r, pokemon_name, data) ==
  RedisSet(r, redis_key(pokemon_name), Dumps(data))

\* What fetch_pokemon_data_from_redis returns on store r.
fetch_pokemon_data_from_redis(r, pokemon_name) ==
  LET data == RedisGet(r, redis_key(pokemon_name))
  IN  IF BytesTruthy(data) THEN Loads(data.val) ELSE PyNone

-----------------------------------------------------------------------------
(* PokemonHeightComparer *)

dog_height == 50
human_height == 170
elephant_height == 350

\* float(pokemon_data['height']): ok = FALSE when the subscript or float raises.
HeightOf(pokemon_data) ==
  IF pokemon_data.t = "obj" /\ "height" \in DOMAIN pokemon_data.f
  THEN Float(pokemon_data.f["height"])
  ELSE [ok |-> FALSE, val |-> 0]

\* One bar chart: plt.title, categories, heights.
Chart(label, pokemon_name, ref, pokemon_height) ==
  [title |-> [head |-> "Height Comparison: ", subject |-> label,
              vs |-> Capitalize(pokemon_name)],
   categories |-> [ref |-> label, pokemon |-> Capitalize(pokemon_name)],
   heights |-> [ref |-> ref, pokemon |-> pokemon_height]]

\* plot_height_comparison with the dog and human heights exchanged.
plot_height_comparison_Swapped(pokemon_name, human, dog, elephant, pokemon_data) ==
  IF pokemon_data = PyNone THEN [raised |-> FALSE, charts |-> <<>>]
  ELSE IF ~HeightOf(pokemon_data).ok THEN [raised |-> TRUE, charts |-> <<>>]
  ELSE LET pokemon_height == HeightOf(pokemon_data).val * 10
       IN  [raised |-> FALSE,
            charts |-> << Chart("Dog", pokemon_name, human, pokemon_height),
                          Chart("Human", pokemon_name, dog, pokemon_height),
                          Chart("Elephant", pokemon_name, elephant, pokemon_height) >>]

\* plot_height_comparison on the document it read: the charts shown, and
\* whether an exception left the method.
plot_height_comparison(pokemon_name, human, dog, elephant, pokemon_data) ==
  IF pokemon_data = PyNone THEN [raised |-> FALSE, charts |-> <<>>]
  ELSE IF ~HeightOf(pokemon_data).ok THEN [raised |-> TRUE, charts |-> <<>>]
  ELSE LET pokemon_height == HeightOf(pokemon_data).val * 10
       IN  [raised |-> FALSE,
            charts |-> << Chart("Dog", pokemon_name, dog, pokemon_height),
                          Chart("Human", pokemon_name, human, pokemon_height),
                          Chart("Elephant", pokemon_name, elephant, pokemon_height) >>]

-----------------------------------------------------------------------------
(* Request handlers *)

Result(kind, who, doc) == [kind |-> kind, who |-> who, doc |-> doc]

NoResult == Result("none", <<>>, PyNone)

\* A worker's record.  pc, name and pokemon_data are the handler's position
\* and locals (pokemon_data is kept only until the handler returns).  The
\* other fields record what the request did: the upstream's status, the
\* document plot_height_comparison read, the response, the charts shown and
\* the number of outbound HTTP calls and of Redis calls; latest is the
\* document last ingested for the name when the request read the store.
\* lastSet records, per normalized name, the document and upstream status
\* of the request whose SET executed last.
IdleReq ==
  [pc |-> "idle", op |-> "none", name |-> <<>>, status |-> 0,
   pokemon_data |-> PyNone, used |-> PyNone, latest |-> PyNone,
   result |-> NoResult, http |-> 0, cache |-> 0, charts |-> <<>>]

\* The document of the last SET made for the normalized name of
\* pokemon_name, None when no Ingest has written one yet.
LatestIngested(pokemon_name) ==
  IF Lower(pokemon_name) \in DOMAIN lastSet
  THEN lastSet[Lower(pokemon_name)].doc ELSE PyNone

Init ==
  /\ redis = <<>>
  /\ req = [p \in Procs |-> IdleReq]
  /\ lastSet = <<>>

\* HomePage.get
Home(p) ==
  /\ req[p].pc = "idle"
  /\ req' = [req EXCEPT ![p] =
       [IdleReq EXCEPT !.pc = "done", !.op = "home",
                       !.result = Result("Welcome", <<>>, PyNone)]]
  /\ UNCHANGED <<redis, lastSet>>

\* Pokemon.get up to the upstream's answer: lines 42-44, and 48 when falsy.
IngestFetch(p) ==
  /\ req[p].pc = "idle"
  /\ \E n \in Names, resp \in Responses :
       LET pokemon_data == fetch_pokemon_data(resp.status, resp.body)
           r0 == [IdleReq EXCEPT !.op = "ingest", !.name = n,
                                 !.status = resp.status,
                                 !.http = 1]
       IN  req' = [req EXCEPT ![p] =
             IF Truthy(pokemon_data)
             THEN [r0 EXCEPT !.pc = "insert", !.pokemon_data = pokemon_data]
             ELSE [r0 EXCEPT !.pc = "done",
                            !.result = Result("NotFound", Capitalize(n), PyNone)]]
  /\ UNCHANGED <<redis, lastSet>>

\* Pokemon.get, lines 45-46: the SET and the response.
IngestInsert(p) ==
  /\ req[p].pc = "insert"
  /\ redis' = insert_into_redis(redis, req[p].name, req[p].pokemon_data)
  /\ lastSet' = [x \in DOMAIN lastSet \cup {Lower(req[p].name)} |->
                   IF x = Lower(req[p].name)
                   THEN [doc |-> req[p].pokemon_data, status |-> req[p].status]
                   ELSE lastSet[x]]
  /\ req' = [req EXCEPT ![p].pc = "done", ![p].cache = @ + 1,
                        ![p].pokemon_data = PyNone,
                        ![p].result = Result("Ingested", <<>>, req[p].pokemon_data)]

\* PokemonHeightComparison.get that asks the upstream when the cache misses.
CompareGet_ReadThrough(p) ==
  /\ req[p].pc = "idle"
  /\ \E n \in Names, resp \in Responses :
       LET cached == fetch_pokemon_data_from_redis(redis, n)
           pokemon_data ==
             IF Truthy(cached) THEN cached
             ELSE fetch_pokemon_data(resp.status, resp.body)
           r0 == [IdleReq EXCEPT !.op = "compare", !.name = n, !.cache = 1,
                                 !.http = IF Truthy(cached) THEN 0 ELSE 1,
                                 !.latest = LatestIngested(n)]
       IN  req' = [req EXCEPT ![p] =
             IF Truthy(pokemon_data)
             THEN [r0 EXCEPT !.pc = "plot", !.pokemon_data = pokemon_data]
             ELSE [r0 EXCEPT !.pc = "done",
                            !.result = Result("NoCachedData", Capitalize(n), PyNone)]]
  /\ UNCHANGED <<redis, lastSet>>

\* PokemonHeightComparison.get up to the first GET: lines 62-70, and 74.
CompareGet(p) ==
  /\ req[p].pc = "idle"
  /\ \E n \in Names :
       LET pokemon_data == fetch_pokemon_data_from_redis(redis, n)
           r0 == [IdleReq EXCEPT !.op = "compare", !.name = n, !.cache = 1,
                                 !.latest = LatestIngested(n)]
       IN  req' = [req EXCEPT ![p] =
             IF Truthy(pokemon_data)
             THEN [r0 EXCEPT !.pc = "plot", !.pokemon_data = pokemon_data]
             ELSE [r0 EXCEPT !.pc = "done",
                            !.result = Result("NoCachedData", Capitalize(n), PyNone)]]
  /\ UNCHANGED <<redis, lastSet>>

\* PokemonHeightComparison.get, lines 71-72: plot_height_comparison's own
\* GET, the charts, and the response (or the exception leaving the handler).
ComparePlot(p) ==
  /\ req[p].pc = "plot"
  /\ LET pokemon_data == fetch_pokemon_data_from_redis(redis, req[p].name)
         out == plot_height_comparison(req[p].name, human_height, dog_height,
                                       elephant_height, pokemon_data)
     IN  req' = [req EXCEPT ![p].pc = "done", ![p].cache = @ + 1,
                            ![p].pokemon_data = PyNone,
                            ![p].used = pokemon_data,
                            ![p].latest = LatestIngested(req[p].name),
                            ![p].charts = out.charts,
                            ![p].result =
                              IF out.raised THEN Result("Unhandled", <<>>, PyNone)
                              ELSE Result("Compared", <<>>, PyNone)]
  /\ UNCHANGED <<redis, lastSet>>

\* The response has been sent; the worker takes the next request.
Respond(p) ==
  /\ req[p].pc = "done"
  /\ req' = [req EXCEPT ![p] = IdleReq]
  /\ UNCHANGED <<redis, lastSet>>

Next ==
  \E p \in Procs :
    \/ Home(p)
    \/ IngestFetch(p)
    \/ IngestInsert(p)
    \/ CompareGet(p)
    \/ ComparePlot(p)
    \/ Respond(p)

Spec == Init /\ [][Next]_vars

-----------------------------------------------------------------------------
(* Vocabulary of the properties *)

\* The cache key the specification gives a name: pokemon:<lowercased name>.
ExpectedKey(n) == KeyPrefix \o Lower(n)

DoneReq(p, op) == req[p].pc = "done" /\ req[p].op = op

\* p takes its first step as an Ingest / a CompareHeights in this transition.
Starts(p, op) == req[p].pc = "idle" /\ req'[p].op = op

\* The document has a height that is a JSON number.
HeightNumeric(d) ==
  d.t = "obj" /\ "height" \in DOMAIN d.f /\ d.f["height"].t = "num"

\* The document has a height Python's float() accepts: a number, a boolean,
\* or a string of decimal digits.
HeightConvertible(d) ==
  /\ d.t = "obj"
  /\ "height" \in DOMAIN d.f
  /\ \/ d.f["height"].t \in {"num", "bool"}
     \/ /\ d.f["height"].t = "str"
        /\ d.f["height"].s # <<>>
        /\ \A i \in 1..Len(d.f["height"].s) : IsDigit(d.f["height"].s[i])

ExpectedChart(label, n, ref, h) ==
  [title |-> [head |-> "Height Comparison: ", subject |-> label, vs |-> Capitalize(n)],
   categories |-> [ref |-> label, pokemon |-> Capitalize(n)],
   heights |-> [ref |-> ref, pokemon |-> h]]

-----------------------------------------------------------------------------
(* C1 *)

C1_State ==
  /\ \A p \in Procs :
       req[p].op = "ingest" /\ req[p].status # 200 =>
         /\ req[p].pc = "done"
         /\ req[p].cache = 0
         /\ req[p].result = Result("NotFound", Capitalize(req[p].name), PyNone)
  /\ \A q \in Procs :
       DoneReq(q, "compare") /\ ExpectedKey(req[q].name) \notin DOMAIN redis =>
         req[q].result = Result("NoCachedData", Capitalize(req[q].name), PyNone)

C1_Step ==
  \A p \in Procs :
    Starts(p, "ingest") /\ req'[p].status # 200 =>
      redis' = redis /\ req'[p].result.kind = "NotFound"

\* C1: an Ingest the upstream answers with a non-200 status ends NotFound(N),
\* makes no cache call and leaves the cache exactly as it was; a
\* CompareHeights(N) that finds no key pokemon:<lower(N)> ends NoCachedData(N).
C1_NotFoundLeavesCache == []C1_State /\ [][C1_Step]_vars

C1_Witness ==
  \E p, q \in Procs :
    /\ DoneReq(p, "ingest") /\ req[p].status = 404
    /\ req[p].result.kind = "NotFound"
    /\ DoneReq(q, "compare") /\ Lower(req[q].name) = Lower(req[p].name)
    /\ req[q].result.kind = "NoCachedData"
    /\ ExpectedKey(req[p].name) \notin DOMAIN redis

-----------------------------------------------------------------------------
(* C2 *)

C2_State ==
  \A p \in Procs :
    req[p].op = "compare" =>
      /\ req[p].http = 0
      /\ req[p].result.kind = "NoCachedData" => req[p].charts = <<>>

C2_Step ==
  \A p \in Procs :
    Starts(p, "compare") /\ ExpectedKey(req'[p].name) \notin DOMAIN redis =>
      /\ req'[p].pc = "done"
      /\ req'[p].result = Result("NoCachedData", Capitalize(req'[p].name), PyNone)
      /\ req'[p].charts = <<>>
      /\ req'[p].http = 0

\* C2: CompareHeights never makes an outbound HTTP call, on either branch;
\* when the key pokemon:<lower(N)> is absent it ends NoCachedData(N) and
\* renders no chart.
C2_CompareNeverFetches == []C2_State /\ [][C2_Step]_vars

C2_Witness ==
  \E p, q \in Procs :
    /\ DoneReq(p, "compare") /\ req[p].result.kind = "NoCachedData"
    /\ req[p].http = 0 /\ req[p].charts = <<>>
    /\ DoneReq(q, "compare") /\ req[q].result.kind = "Compared"
    /\ req[q].http = 0

-----------------------------------------------------------------------------
(* C3 *)

C3_Keys ==
  /\ \A n1, n2 \in Names :
       Lower(n1) = Lower(n2) => redis_key(n1) = redis_key(n2) /\ url(n1) = url(n2)
  /\ \A k \in DOMAIN redis : \E n \in Names : k = ExpectedKey(n)
  /\ \A k1, k2 \in DOMAIN redis : Lower(k1) = Lower(k2) => k1 = k2

-----------------------------------------------------------------------------
(* C4 *)

\* C4: when the document last ingested for the name has a numeric height,
\* CompareHeights reads that same document back and builds exactly the
\* charts (Dog, 0.5, h), (Human, 1.7, h), (Elephant, 3.5, h), in this order,
\* with h = height / 10 metres (lengths in centimetres here).
C4_ThreeCharts ==
  \A p \in Procs :
    DoneReq(p, "compare") /\ HeightNumeric(req[p].latest) =>
      LET h == req[p].latest.f["height"].n * 10
      IN  /\ req[p].used = req[p].latest
          /\ req[p].result.kind = "Compared"
          /\ req[p].charts =
               << ExpectedChart("Dog", req[p].name, 50, h),
                  ExpectedChart("Human", req[p].name, 170, h),
                  ExpectedChart("Elephant", req[p].name, 350, h) >>

C4_Witness ==
  \E p \in Procs :
    /\ DoneReq(p, "compare")
    /\ req[p].latest = Obj("height" :> JNum(7))
    /\ Len(req[p].charts) = 3
    /\ req[p].charts[1].heights = [ref |-> 50, pokemon |-> 70]
    /\ req[p].charts[3].heights = [ref |-> 350, pokemon |-> 70]

-----------------------------------------------------------------------------
(* C5 *)

C5_Step ==
  \A p \in Procs :
    /\ Starts(p, "ingest") => redis' = redis
    /\ /\ req[p].pc = "insert" /\ req'[p].pc = "done"
       /\ Lower(req[p].name) \in DOMAIN lastSet
       /\ lastSet[Lower(req[p].name)].doc = req[p].pokemon_data
       => /\ redis' = redis
          /\ req'[p].result =
               Result("Ingested", <<>>, lastSet[Lower(req[p].name)].doc)

C5_State ==
  \A p, q \in Procs :
    /\ DoneReq(p, "ingest") /\ DoneReq(q, "ingest")
    /\ req[p].name = req[q].name /\ req[p].status = req[q].status
    /\ req[p].result.doc = req[q].result.doc
    => req[p].result = req[q].result

\* C5: an Ingest(N) whose upstream document is the one the previous write
\* for that name stored leaves the whole cache as it was and returns the
\* same result as that previous Ingest; an Ingest that stores nothing
\* leaves the cache as it was; equal name and response give equal results.
C5_IngestIdempotent == []C5_State /\ [][C5_Step]_vars

C5_Witness ==
  \E p, q \in Procs :
    /\ p # q
    /\ DoneReq(p, "ingest") /\ DoneReq(q, "ingest")
    /\ req[p].name = req[q].name
    /\ req[p].result.kind = "Ingested"
    /\ req[q].result = req[p].result
    /\ redis = (ExpectedKey(req[p].name) :> Dumps(req[p].result.doc))

-----------------------------------------------------------------------------
(* C6, C7, C8 *)

\* C6: every Ingest the upstream answers with 200 and a body D, whatever
\* JSON value D is, returns Ingested(D) and leaves D under pokemon:<lower(N)>.
C6_Claim ==
  \A p \in Procs :
    DoneReq(p, "ingest") /\ req[p].status = 200 =>
      /\ req[p].result.kind = "Ingested"
      /\ ExpectedKey(req[p].name) \in DOMAIN redis

\* C7: a CompareHeights that reads a cached document whose height is missing
\* or not a number never ends Compared and never renders a chart.
C7_Claim ==
  \A p \in Procs :
    DoneReq(p, "compare") /\ req[p].used # PyNone /\ ~HeightNumeric(req[p].used) =>
      /\ req[p].result.kind # "Compared"
      /\ req[p].charts = <<>>

\* C8: an Ingest makes at most one HTTP call and at most one cache call; a
\* CompareHeights makes no HTTP call and at most one cache call.
C8_Claim ==
  \A p \in Procs :
    /\ req[p].op = "ingest" => req[p].http <= 1 /\ req[p].cache <= 1
    /\ req[p].op = "compare" => req[p].http = 0 /\ req[p].cache <= 1

-----------------------------------------------------------------------------
(* C9 *)

\* C9: under every interleaving, each key holds exactly the whole text of
\* the document of the Ingest whose SET executed last for that normalized
\* name, a document the upstream returned with status 200; a name no Ingest
\* wrote has no key; an Ingest answered non-200 makes no write.
C9_LastWriteWins ==
  /\ \A k \in DOMAIN redis :
       \E nm \in DOMAIN lastSet :
         /\ k = KeyPrefix \o nm
         /\ redis[k] = Dumps(lastSet[nm].doc)
         /\ Loads(redis[k]) = lastSet[nm].doc
         /\ lastSet[nm].status = 200
         /\ lastSet[nm].doc \in Docs
  /\ \A nm \in DOMAIN lastSet : KeyPrefix \o nm \in DOMAIN redis
  /\ \A p \in Procs :
       req[p].op = "ingest" /\ req[p].status # 200 =>
         req[p].cache = 0 /\ req[p].pc # "insert"

C9_Witness ==
  \E p, q \in Procs :
    /\ DoneReq(p, "ingest") /\ DoneReq(q, "ingest")
    /\ Lower(req[p].name) = Lower(req[q].name)
    /\ req[p].result.kind = "Ingested" /\ req[q].result.kind = "Ingested"
    /\ req[p].result.doc # req[q].result.doc
    /\ redis[ExpectedKey(req[q].name)] = Dumps(req[q].result.doc)

-----------------------------------------------------------------------------
(* C10 *)

C10_Step ==
  /\ DOMAIN redis \subseteq DOMAIN redis'
  /\ \A p \in Procs :
       req'[p] # req[p] =>
         IF req[p].op = "ingest"
         THEN \A k \in DOMAIN redis' :
                k # ExpectedKey(req[p].name) =>
                  k \in DOMAIN redis /\ redis'[k] = redis[k]
         ELSE redis' = redis

C10_State ==
  \A nm \in DOMAIN lastSet :
    /\ ExpectedKey(nm) \in DOMAIN redis
    /\ redis[ExpectedKey(nm)] = Dumps(lastSet[nm].doc)

\* C10: a step of Ingest(N) changes at most the key pokemon:<lower(N)>; a
\* step of CompareHeights or of the greeting changes no key; no step
\* removes a key; each key holds its own name's last ingested document.
C10_Frame == []C10_State /\ [][C10_Step]_vars

C10_Witness ==
  /\ ExpectedKey(<<"p", "i">>) \in DOMAIN redis
  /\ ExpectedKey(<<"d", "i">>) \in DOMAIN redis
  /\ redis[ExpectedKey(<<"p", "i">>)] # redis[ExpectedKey(<<"d", "i">>)]
  /\ \E p, q \in Procs :
       /\ DoneReq(p, "ingest") /\ req[p].name = <<"d", "i">>
       /\ DoneReq(q, "ingest") /\ Lower(req[q].name) = <<"p", "i">>
       /\ req[p].result.kind = "Ingested" /\ req[q].result.kind = "Ingested"

====
